---------------------------- MODULE Spec2Model ----------------------------
(***************************************************************************)
(* Video learning system: question generation (app/app.py,                 *)
(* app/utils/question_generator.py, app/utils/subtitle_parser.py,          *)
(* app/models/database.py) and answer evaluation                           *)
(* (app/utils/feedback_generator.py).                                      *)
(*                                                                         *)
(* The specifications share the variables:                                 *)
(*   SpecSelect  the chunk-index selection of generate_questions as a      *)
(*               function of (len(chunks), question_count);                *)
(*   Spec        the application: the persisted stores and whole           *)
(*               generate-questions requests, several in a row;            *)
(*   SpecRun     one generate-questions request over long transcripts;     *)
(*   SpecEval    verify_answer and FeedbackGenerator.generate_feedback on  *)
(*               one item;                                                 *)
(*   SpecPair    two answers to one short_answer item;                     *)
(*   SpecGroup   SubtitleParser.group_by_topic;                            *)
(*   SpecContext the context assembly of ask_question and verify_answer;   *)
(*   SpecService the calls of the generative service by both handlers.     *)
(***************************************************************************)
EXTENDS Integers, Sequences, FiniteSets, TLC

VARIABLES
    \* --- SpecSelect: inputs and result of the selection
    selIn, selOut,
    \* --- persisted store (Database): videos.json and questions.json
    videos, questions,
    \* --- one generate_questions request in flight (its locals)
    pc, video_id, data, question_type, question_count, chunks, chunk_indices,
    pos, generated_questions, question_counter, backfill, lastCall, service, offCount,
    \* (data: the request's JSON body, of which its question_count is kept;
    \* pos: position in the list being iterated; backfill: the indices the second
    \* pass iterates; lastCall: the latest generate_from_text call; service: whether
    \* the generative service is "up" or "down" during the request; offCount: the
    \* calls of this request the service answered otherwise than its state suggests)
    \* --- what the last request answered, and how many requests were served
    response, runs,
    \* --- SpecEval, SpecPair: inputs and result of generate_feedback, and the answer
    \* and result of the evaluation made before on the same item
    evIn, evOut, evPrev,
    \* --- SpecGroup: inputs and result of group_by_topic
    grpIn, grpOut,
    \* --- SpecContext: inputs and result of the context assembly
    ctxIn, ctxOut

selVars == <<selIn, selOut>>
storeVars == <<videos, questions>>
runVars == <<pc, video_id, data, question_type, question_count, chunks, chunk_indices,
             pos, generated_questions, question_counter, backfill, lastCall, service,
             offCount>>
genVars == <<videos, questions, pc, video_id, data, question_type, question_count, chunks,
             chunk_indices, pos, generated_questions, question_counter, backfill,
             lastCall, service, offCount, response, runs>>
evVars == <<evIn, evOut, evPrev>>
grpVars == <<grpIn, grpOut>>
ctxVars == <<ctxIn, ctxOut>>
vars == <<selIn, selOut, videos, questions, pc, video_id, data, question_type, question_count,
          chunks, chunk_indices, pos, generated_questions, question_counter, backfill,
          lastCall, service, offCount, response, runs, evIn, evOut, evPrev,
          grpIn, grpOut, ctxIn, ctxOut>>

None == "none"

Min(a, b) == IF a <= b THEN a ELSE b

Range(s) == {s[i] : i \in 1..Len(s)}

\* s[:n] of Python for n >= 0
Take(s, n) == SubSeq(s, 1, Min(n, Len(s)))

\* list(range(n)) of Python
RangeList(n) == [i \in 1..n |-> i - 1]

(***************************************************************************)
(* Chunk-index selection, app.py 334-360 (YouTube path).                   *)
(***************************************************************************)

\* "for j in range(len(chunks)): if j not in chunk_indices: append; break"
FirstUnused(n, idx) ==
    LET free == {j \in 0..(n - 1) : j \notin Range(idx)}
    IN  IF free = {} THEN idx
        ELSE Append(idx, CHOOSE j \in free : \A k \in free : j <= k)

\* the backfill loop "for i in range(remaining)" from iteration i on
RECURSIVE SelectBackfill(_, _, _, _, _)
SelectBackfill(n, idx, middle_start, i, remaining) ==
    IF i >= remaining THEN idx
    ELSE LET cand == middle_start + i
             nxt == IF cand < n /\ cand \notin Range(idx)
                    THEN Append(idx, cand)
                    ELSE FirstUnused(n, idx)
         IN  SelectBackfill(n, nxt, middle_start, i + 1, remaining)

\* step = len(chunks) // question_count; [i * step for i in range(question_count)]
StrideIndicesNoScale(n, qc) == [i \in 1..qc |-> i - 1]
StrideIndicesCeil(n, qc) == [i \in 1..qc |-> (i - 1) * ((n + qc - 1) \div qc)]
StrideIndices(n, qc) == [i \in 1..qc |-> (i - 1) * (n \div qc)]

\* the guard of the backfill branch: len(chunk_indices) < question_count
NeedsSelectBackfill(n, qc) == Len(StrideIndices(n, qc)) < qc

SelectChunkIndices(n, qc) ==
    IF n <= qc
    THEN RangeList(n)
    ELSE LET base == StrideIndices(n, qc)
             filled == IF NeedsSelectBackfill(n, qc)
                       THEN SelectBackfill(n, base, n \div 3, 0, qc - Len(base))
                       ELSE base
         IN  Take(SortSeq(filled, LAMBDA a, b : a < b), qc)

(***************************************************************************)
(* Subtitle-file path selection, app.py 500-510: the indices of             *)
(* selected_chunks in topic_chunks.                                        *)
(***************************************************************************)
SelectedIndicesCeil(n, qc) ==
    IF n <= qc
    THEN RangeList(n)
    ELSE SelectSeq(StrideIndicesCeil(n, qc), LAMBDA i : i < n)
SelectedIndices(n, qc) ==
    IF n <= qc
    THEN RangeList(n)
    ELSE SelectSeq(StrideIndices(n, qc), LAMBDA i : i < n)

(***************************************************************************)
(* Segmenter, subtitle_parser.py 75-101.  A segment is                     *)
(* [index, start_time, end_time]; its text is not modelled.                *)
(***************************************************************************)
window_size == 5

GroupFromFullOnly(segments, i, w) ==
    [k \in 1..(Len(segments) \div w) |->
        LET chunk == SubSeq(segments, (k - 1) * w + 1, k * w)
        IN  [start_index |-> chunk[1].index,
             end_index |-> chunk[Len(chunk)].index,
             start_time |-> chunk[1].start_time,
             end_time |-> chunk[Len(chunk)].end_time,
             segments |-> chunk]]
RECURSIVE GroupFrom(_, _, _)
GroupFrom(segments, i, w) ==
    IF i > Len(segments) THEN <<>>
    ELSE LET chunk == SubSeq(segments, i, Min(i + w - 1, Len(segments)))
         IN  <<[start_index |-> chunk[1].index,
                end_index |-> chunk[Len(chunk)].index,
                start_time |-> chunk[1].start_time,
                end_time |-> chunk[Len(chunk)].end_time,
                segments |-> chunk]>> \o GroupFrom(segments, i + w, w)

group_by_topic(segments) == GroupFrom(segments, 1, window_size)

\* app.py 315-326: a YouTube transcript (items with start and duration) as segments
TranscriptSegments(transcript_list) ==
    [i \in 1..Len(transcript_list) |->
        [index |-> i,
         start_time |-> transcript_list[i].start,
         end_time |-> transcript_list[i].start + transcript_list[i].duration]]

(***************************************************************************)
(* QuestionGenerator, question_generator.py 149-259.  An item is           *)
(* [question_id, video_id, type, timestamp_start, timestamp_end]; a        *)
(* question_id "{video_id}_{timestamp}_{n}" is the tuple of its parts.      *)
(***************************************************************************)
VariantTypes == <<"multiple_choice", "fill_in_the_blank", "short_answer">>
valid_types == {"multiple_choice", "fill_in_the_blank", "short_answer", "mixed"}

generate_unique_question_id(vid, timestamp, sequence_number) ==
    <<vid, timestamp, sequence_number>>

Item(vid, ts, te, type, n) ==
    [question_id |-> generate_unique_question_id(vid, ts, n), video_id |-> vid,
     type |-> type, timestamp_start |-> ts, timestamp_end |-> te]

\* s[a:b] of Python for 0 <= a <= b
Slice(s, a, b) == SubSeq(s, a + 1, Min(b, Len(s)))

\* _generate_fallback_questions, 204-259
_generate_fallback_questions(vid, ts, te, qtype) ==
    LET mc == IF qtype \in {"multiple_choice", "mixed"}
              THEN <<Item(vid, ts, te, "multiple_choice", 0)>> ELSE <<>>
        fb == IF qtype \in {"fill_in_the_blank", "mixed"}
              THEN <<Item(vid, ts, te, "fill_in_the_blank", 1)>> ELSE <<>>
        sa == IF qtype \in {"short_answer", "mixed"}
              THEN <<Item(vid, ts, te, "short_answer", 2)>> ELSE <<>>
        fallback_questions == mc \o fb \o sa
    IN  CASE qtype = "multiple_choice" -> Slice(fallback_questions, 0, 1)
          [] qtype = "fill_in_the_blank" -> Slice(fallback_questions, 1, 2)
          [] qtype = "short_answer" -> Slice(fallback_questions, 2, 3)
          [] OTHER -> fallback_questions

\* What the service answers to one call is [ok, n]: ok = FALSE is any exception
\* inside the try of generate_from_text, otherwise n is the number of questions in
\* its JSON answer.  The service's items carry the requested variant (for "mixed":
\* the variants in turn).
ServiceItems(vid, ts, te, qtype, k) ==
    [i \in 1..k |->
        Item(vid, ts, te,
             IF qtype = "mixed" THEN VariantTypes[((i - 1) % 3) + 1] ELSE qtype,
             i - 1)]

\* generate_from_text, 149-202
generate_from_text(vid, ts, te, qtype, outcome) ==
    IF ~outcome.ok
    THEN _generate_fallback_questions(vid, ts, te, qtype)
    ELSE ServiceItems(vid, ts, te, qtype, outcome.n)

(***************************************************************************)
(* Database, database.py.  videos and questions are the lists in            *)
(* videos.json and questions.json.                                         *)
(***************************************************************************)
HasVideo(vs, vid) == \E i \in 1..Len(vs) : vs[i].video_id = vid

get_video_by_id(vs, vid) ==
    vs[CHOOSE i \in 1..Len(vs) :
          vs[i].video_id = vid /\ \A j \in 1..(i - 1) : vs[j].video_id # vid]

\* video.get('topic_chunks'): None (here the empty list) when the key is absent
TopicChunksOf(video) ==
    IF "topic_chunks" \in DOMAIN video THEN video.topic_chunks ELSE <<>>

add_questions(all_questions, new_questions) == all_questions \o new_questions

delete_questions_for_video(all_questions, vid) ==
    SelectSeq(all_questions, LAMBDA q : q.video_id # vid)

get_questions_for_video(all_questions, vid) ==
    SelectSeq(all_questions, LAMBDA q : q.video_id = vid)

(***************************************************************************)
(* FeedbackGenerator, feedback_generator.py.  A string is the sequence of  *)
(* its characters.                                                         *)
(***************************************************************************)
IsSpace(c) == c = " "
IsAlpha(c) == c \in {"a", "b", "A", "B"}
LowerChar(c) == IF c = "A" THEN "a" ELSE IF c = "B" THEN "b" ELSE c

\* str.lower()
Lower(s) == [i \in 1..Len(s) |-> LowerChar(s[i])]

\* str.strip()
RECURSIVE LStrip(_)
LStrip(s) == IF s # <<>> /\ IsSpace(s[1]) THEN LStrip(Tail(s)) ELSE s
RECURSIVE RStrip(_)
RStrip(s) ==
    IF s # <<>> /\ IsSpace(s[Len(s)]) THEN RStrip(SubSeq(s, 1, Len(s) - 1)) ELSE s
Strip(s) == RStrip(LStrip(s))

\* str.isalpha(): not empty and every character alphabetic
IsAlphaStr(s) == s # <<>> /\ \A i \in 1..Len(s) : IsAlpha(s[i])

\* "a in b" of two strings
Contains(a, b) == \E i \in 1..(Len(b) - Len(a) + 1) : SubSeq(b, i, i + Len(a) - 1) = a

\* str.split(): the maximal runs of characters that are not whitespace
RECURSIVE SplitFrom(_, _)
SplitFrom(s, word) ==
    IF s = <<>> THEN (IF word = <<>> THEN <<>> ELSE <<word>>)
    ELSE IF IsSpace(s[1])
         THEN (IF word = <<>> THEN <<>> ELSE <<word>>) \o SplitFrom(Tail(s), <<>>)
         ELSE SplitFrom(Tail(s), Append(word, s[1]))
Split(s) == SplitFrom(s, <<>>)

\* The feedback call of the service: [ok, long, score].  ok = FALSE is any exception
\* of the call or of reading its JSON; long says the feedback text has 20 characters
\* or more; score is the score_percentage of the answer (read for short answers).
\* A feedback text is [source, pool, explanation]: where it comes from ("service",
\* or a template of this class), the pool its starter is drawn from by random.choice
\* ("correct", "incorrect" or "none"), and whether it quotes the explanation.
ServiceText == [source |-> "service", pool |-> "none", explanation |-> FALSE]

\* _generate_template_feedback, 493-500
_generate_template_feedback(is_correct) ==
    [source |-> "template", pool |-> IF is_correct THEN "correct" ELSE "incorrect",
     explanation |-> TRUE]

\* 288-293 and 317-322
FillInBlankTemplateGeneric(result_type) ==
    _generate_template_feedback(result_type = "correct")
FillInBlankTemplate(result_type) ==
    IF result_type = "correct"
    THEN [source |-> "template", pool |-> "correct", explanation |-> FALSE]
    ELSE IF result_type = "partial"
    THEN [source |-> "template", pool |-> "none", explanation |-> TRUE]
    ELSE [source |-> "template", pool |-> "incorrect", explanation |-> TRUE]

\* An EvaluationResult.  has_partial and has_score say whether the dict carries the
\* keys is_partial and score_percentage; calls counts the calls of the service.
Result(is_correct, has_partial, is_partial, has_score, score, feedback, resources, calls) ==
    [done |-> TRUE, is_correct |-> is_correct, has_partial |-> has_partial,
     is_partial |-> is_partial, has_score |-> has_score, score_percentage |-> score,
     enhanced_feedback |-> feedback, additional_resources |-> resources, calls |-> calls,
     status |-> 200]

\* _generate_multiple_choice_feedback, 96-216
_generate_multiple_choice_feedbackRetrying(is_correct, svc) ==
    IF svc.ok
    THEN IF ~svc.long
         THEN Result(is_correct, FALSE, FALSE, FALSE, 0,
                     _generate_template_feedback(is_correct), "fallback", 1)
         ELSE Result(is_correct, FALSE, FALSE, FALSE, 0, ServiceText, "service", 1)
    ELSE Result(is_correct, FALSE, FALSE, FALSE, 0, ServiceText, "service", 2)
_generate_multiple_choice_feedback(is_correct, svc) ==
    IF svc.ok
    THEN IF ~svc.long
         THEN Result(is_correct, FALSE, FALSE, FALSE, 0,
                     _generate_template_feedback(is_correct), "fallback", 1)
         ELSE Result(is_correct, FALSE, FALSE, FALSE, 0, ServiceText, "service", 1)
    ELSE Result(is_correct, FALSE, FALSE, FALSE, 0,
                _generate_template_feedback(is_correct), "fallback", 1)

\* _generate_fill_in_blank_feedback, 218-337
_generate_fill_in_blank_feedback(result_type, svc) ==
    LET is_correct == result_type = "correct"
        is_partial == result_type = "partial"
    IN  IF svc.ok
        THEN IF ~svc.long
             THEN Result(is_correct, TRUE, is_partial, FALSE, 0,
                         FillInBlankTemplate(result_type), "fallback", 1)
             ELSE Result(is_correct, TRUE, is_partial, FALSE, 0, ServiceText, "service", 1)
        ELSE Result(is_correct, TRUE, is_partial, FALSE, 0,
                    FillInBlankTemplate(result_type), "fallback", 1)

\* 71-85: the classification of a fill-in-the-blank answer
FillInBlankResultTypeNonEmpty(user_answer, correct_answer) ==
    LET user_answer_normalized == Lower(Strip(user_answer))
        correct_answer_normalized == Lower(Strip(correct_answer))
    IN  IF user_answer_normalized = correct_answer_normalized THEN "correct"
        ELSE IF /\ user_answer_normalized # <<>>
                /\ \/ Contains(user_answer_normalized, correct_answer_normalized)
                   \/ Contains(correct_answer_normalized, user_answer_normalized)
             THEN "partial"
        ELSE "incorrect"
FillInBlankResultTypeExactOnly(user_answer, correct_answer) ==
    IF Lower(Strip(user_answer)) = Lower(Strip(correct_answer)) THEN "correct"
    ELSE "incorrect"
FillInBlankResultType(user_answer, correct_answer) ==
    LET user_answer_normalized == Lower(Strip(user_answer))
        correct_answer_normalized == Lower(Strip(correct_answer))
    IN  IF user_answer_normalized = correct_answer_normalized THEN "correct"
        ELSE IF \/ Contains(user_answer_normalized, correct_answer_normalized)
                \/ Contains(correct_answer_normalized, user_answer_normalized)
             THEN "partial"
        ELSE "incorrect"

\* 68 and 93: the correctness of a multiple-choice answer
MultipleChoiceCorrectIgnoringCase(user_answer, correct_answer) ==
    Lower(user_answer) = Lower(correct_answer)
MultipleChoiceCorrect(user_answer, correct_answer) == user_answer = correct_answer

\* 348-349: the guard of a short answer, taken before the service is called
TooBriefBelowFour(user_answer) == Len(Strip(user_answer)) < 4
TooBrief(user_answer) ==
    \/ Len(Strip(user_answer)) < 5
    \/ (IsAlphaStr(Strip(user_answer)) /\ Len(Strip(user_answer)) < 4)

\* 465: the keywords of a key point
Keywords(point) ==
    LET words == Split(point)
    IN  {Lower(words[i]) : i \in {j \in 1..Len(words) : Len(words[j]) > 3}}

\* 463-469
MatchedPoints(key_points, user_answer) ==
    Cardinality({i \in 1..Len(key_points) :
                    \E keyword \in Keywords(key_points[i]) :
                        Contains(keyword, Lower(user_answer))})

\* round(num / den) of Python: to the nearest integer, a half to the even one
RoundHalfEven(num, den) ==
    LET q == num \div den
        r == num % den
    IN  IF 2 * r < den THEN q
        ELSE IF 2 * r > den THEN q + 1
        ELSE IF q % 2 = 0 THEN q ELSE q + 1

\* 457-474: the score given when the call of the service fails
KeywordScoreRounded(key_points, user_answer) ==
    IF Len(Strip(user_answer)) < 5 THEN 0
    ELSE LET matched_points == MatchedPoints(key_points, user_answer)
         IN  IF matched_points > 0
             THEN Min(70, RoundHalfEven(matched_points * 60, Len(key_points)))
             ELSE 0
KeywordScoreSwapped(key_points, user_answer) ==
    IF Len(Strip(user_answer)) < 5 THEN 0
    ELSE LET matched_points == MatchedPoints(key_points, user_answer)
         IN  IF matched_points > 0
             THEN Min(70, (Len(key_points) * 60) \div matched_points)
             ELSE 0
KeywordScoreUncapped(key_points, user_answer) ==
    IF Len(Strip(user_answer)) < 5 THEN 0
    ELSE LET matched_points == MatchedPoints(key_points, user_answer)
         IN  IF matched_points > 0
             THEN (matched_points * 100) \div Len(key_points)
             ELSE 0
KeywordScore(key_points, user_answer) ==
    IF Len(Strip(user_answer)) < 5 THEN 0
    ELSE LET matched_points == MatchedPoints(key_points, user_answer)
         IN  IF matched_points > 0
             THEN Min(70, (matched_points * 60) \div Len(key_points))
             ELSE 0

BriefText == [source |-> "brief", pool |-> "none", explanation |-> TRUE]
KeywordText == [source |-> "keyword", pool |-> "none", explanation |-> TRUE]

\* 435-436 and 479-480: the thresholds on a score
ScoreIsCorrectAbove(score) == score > 75
ScoreIsCorrect(score) == score >= 75
ScoreIsPartialFromThirty(score) == score >= 30
ScoreIsPartial(score) == 30 <= score /\ score < 75

\* _evaluate_short_answer, 339-491
_evaluate_short_answer(key_points, user_answer, svc) ==
    IF TooBrief(user_answer)
    THEN Result(FALSE, TRUE, FALSE, TRUE, 0, BriefText, "fallback", 0)
    ELSE IF svc.ok
    THEN Result(ScoreIsCorrect(svc.score), TRUE, ScoreIsPartial(svc.score), TRUE, svc.score,
                ServiceText, "service", 1)
    ELSE LET score == KeywordScore(key_points, user_answer)
         IN  Result(ScoreIsCorrect(score), TRUE, ScoreIsPartial(score), TRUE, score,
                    IF Len(Strip(user_answer)) < 5 THEN BriefText ELSE KeywordText,
                    "fallback", 1)

\* generate_feedback, 52-94
generate_feedback(question, user_answer, svc) ==
    IF question.type = "multiple_choice"
    THEN _generate_multiple_choice_feedback(
             MultipleChoiceCorrect(user_answer, question.correct_answer), svc)
    ELSE IF question.type = "fill_in_the_blank"
    THEN _generate_fill_in_blank_feedback(
             FillInBlankResultType(user_answer, question.correct_answer), svc)
    ELSE IF question.type = "short_answer"
    THEN _evaluate_short_answer(question.key_points, user_answer, svc)
    ELSE _generate_multiple_choice_feedback(
             MultipleChoiceCorrect(user_answer, question.correct_answer), svc)

(***************************************************************************)
(* The evaluations of SpecEval: an item, an answer and what the service    *)
(* does when it is called.                                                 *)
(***************************************************************************)
MaxAnswerLen == 3
MaxCorrectLen == 2
MaxShortAnswerLen == 5

Strings(alphabet, n) == UNION {[1..k -> alphabet] : k \in 0..n}
ChoiceAlphabet == {"a", "A", "b", " "}
ShortAnswerAlphabet == {"a", "A", "1", " "}
PairAlphabet == {"a", "1"}

ServiceFails == [ok |-> FALSE, long |-> FALSE, score |-> 0]
ServiceAnswers == {[ok |-> TRUE, long |-> l, score |-> 0] : l \in BOOLEAN}
ServiceScores == {0, 29, 30, 74, 75, 100}
ServiceScored ==
    {[ok |-> TRUE, long |-> l, score |-> sc] : l \in BOOLEAN, sc \in ServiceScores}

KeyPointLists ==
    LET k1 == <<"a", "a", "a", "a">>
        k2 == <<"A", "1", "a", "1", " ", "a", "a">>
        k3 == <<"a", "a", "a">>
        k4 == <<"a", "a", "a", "a", " ", "1", "1", "1", "1">>
    IN  {<<>>, <<k1>>, <<k1, k2>>, <<k1, k2, k3>>, <<k2, k3, k3, k3, k3, k3, k3>>,
         <<k1, k4>>}

Question(type, correct_answer, key_points) ==
    [type |-> type, correct_answer |-> correct_answer, key_points |-> key_points]

ChoiceTypes == {"multiple_choice", "fill_in_the_blank", "essay"}
ChoiceCorrects == Strings(ChoiceAlphabet, MaxCorrectLen)
ChoiceAnswers == Strings(ChoiceAlphabet, MaxAnswerLen)
ShortAnswers == Strings(ShortAnswerAlphabet, MaxShortAnswerLen)

\* an answer to an item with a correct_answer; "essay" stands for every type
\* generate_feedback does not name
ChoiceEvaluation(t, c, u, o) ==
    [question |-> Question(t, c, <<>>), user_answer |-> u, svc |-> o,
     request |-> "string", lacks |-> FALSE]

\* an answer to a short_answer item with key_points k
ShortAnswerEvaluation(k, u, o) ==
    [question |-> Question("short_answer", <<>>, k), user_answer |-> u, svc |-> o,
     request |-> "string", lacks |-> FALSE]

\* The requests verify_answer does not evaluate as a string against a whole item.
\* request says what the request carries: "missing" (no answer, or null), "number" (an
\* answer that is not a string; user_answer then holds nothing), "no_question" (an answer
\* for a question_id that is not stored).  lacks marks a stored item without the
\* fields of its variant, which the evaluator reads as their defaults: an empty
\* correct_answer, no key_points.
MalformedEvaluations ==
    {[question |-> Question(t, <<"a">>, <<>>), user_answer |-> <<>>, svc |-> o,
      request |-> r, lacks |-> FALSE] :
        t \in {"multiple_choice", "fill_in_the_blank", "short_answer", "essay"},
        o \in {ServiceFails} \cup ServiceScored,
        r \in {"missing", "number", "no_question"}}
LackingEvaluations ==
    {[question |-> Question(t, <<>>, <<>>), user_answer |-> u, svc |-> o,
      request |-> "string", lacks |-> TRUE] :
        t \in {"fill_in_the_blank", "short_answer"},
        u \in Strings(PairAlphabet, MaxShortAnswerLen),
        o \in {ServiceFails} \cup ServiceScored}

NoEvaluation ==
    [question |-> Question("none", <<>>, <<>>), user_answer |-> <<>>, svc |-> ServiceFails,
     request |-> "string", lacks |-> FALSE]
NoResult ==
    [done |-> FALSE, is_correct |-> FALSE, has_partial |-> FALSE, is_partial |-> FALSE,
     has_score |-> FALSE, score_percentage |-> 0, enhanced_feedback |-> BriefText,
     additional_resources |-> "none", calls |-> 0, status |-> 0]

\* a response that is an error and carries no EvaluationResult
Rejected(status) == [NoResult EXCEPT !.done = TRUE, !.status = status]

\* generate_feedback on an answer that is not a string: it equals no correct_answer
\* (68, 93), and has no strip() (73, 349 and again 457), which ends the request with
\* an error
FeedbackOnNonString(question, svc) ==
    IF question.type \in {"fill_in_the_blank", "short_answer"}
    THEN Rejected(500)
    ELSE _generate_multiple_choice_feedback(FALSE, svc)

\* verify_answer, app.py 616-662
verify_answer(ev) ==
    IF ev.request = "missing" THEN Rejected(400)
    ELSE IF ev.request = "no_question" THEN Rejected(404)
    ELSE IF ev.request = "number" THEN FeedbackOnNonString(ev.question, ev.svc)
    ELSE generate_feedback(ev.question, ev.user_answer, ev.svc)
NoPrevious == [user_answer |-> <<>>, result |-> NoResult]

\* group_by_topic not yet called; the context not yet assembled
NoGroups == [done |-> FALSE, groups |-> <<>>]
NoAssembly ==
    [path |-> "none", fetched |-> FALSE, segments |-> <<>>, timestamp |-> 0,
     timestamp_start |-> 0, timestamp_end |-> 0]
NoContext == [done |-> FALSE, relevant_segments |-> <<>>, context |-> "none"]

(***************************************************************************)
(* generate_questions, app.py 264-574: the pieces of one request.          *)
(***************************************************************************)
MinQuestionCount == 10
MaxQuestionCount == 20

\* 271-284; the request's question_count is an integer (or a value int() turns
\* into one), a value int() rejects with ValueError or TypeError (or none at all:
\* the default 10 is taken), or a float infinity, on which int() raises
\* OverflowError
ClampQuestionCount(input) ==
    IF input.kind # "int" THEN MinQuestionCount
    ELSE IF input.n < MinQuestionCount THEN MinQuestionCount
    ELSE IF input.n > MaxQuestionCount THEN MaxQuestionCount
    ELSE input.n

\* 277-284: "except (ValueError, TypeError)" does not catch the OverflowError of
\* int(float('inf')), which ends the request
CountRaises(input) == input.kind = "infinite"

\* 273, 286-289
ValidQuestionType(input) ==
    IF input \in valid_types THEN input ELSE "multiple_choice"

\* 375-379, 405-407, 524-527, 558-560: the ids of one call's questions, overwritten
NumberQuestionsPerCall(qs, vid, start_time, counter) ==
    [i \in 1..Len(qs) |->
        [qs[i] EXCEPT !.question_id = generate_unique_question_id(vid, start_time, i - 1)]]
NumberQuestions(qs, vid, start_time, counter) ==
    [i \in 1..Len(qs) |->
        [qs[i] EXCEPT !.question_id =
            generate_unique_question_id(vid, start_time, counter + i - 1)]]

\* 411-412, 564-565
TruncateNot(generated, qc) == generated
Truncate(generated, qc) == Take(generated, qc)

\* 435-482: the dummy questions of the except branch
DummyType(qtype, i) ==
    IF qtype = "multiple_choice" \/ (qtype = "mixed" /\ i % 3 = 0) THEN "multiple_choice"
    ELSE IF qtype = "fill_in_the_blank" \/ (qtype = "mixed" /\ i % 3 = 1)
         THEN "fill_in_the_blank"
    ELSE "short_answer"

DummyQuestionsOneShort(vid, qtype, qc, counter) ==
    [j \in 1..(qc - 1) |->
        [question_id |-> generate_unique_question_id(vid, 30 * (j - 1), counter + j - 1),
         video_id |-> vid, type |-> DummyType(qtype, j - 1),
         timestamp_start |-> 30 * (j - 1), timestamp_end |-> 30 * (j - 1) + 20]]
DummyQuestions(vid, qtype, qc, counter) ==
    [j \in 1..qc |->
        [question_id |-> generate_unique_question_id(vid, 30 * (j - 1), counter + j - 1),
         video_id |-> vid, type |-> DummyType(qtype, j - 1),
         timestamp_start |-> 30 * (j - 1), timestamp_end |-> 30 * (j - 1) + 20]]

\* topic_chunks.index(chunk): the first index holding an equal chunk
IndexOf(chs, chunk) == CHOOSE i \in 0..(Len(chs) - 1) :
                          chs[i + 1] = chunk /\ \A j \in 0..(i - 1) : chs[j + 1] # chunk

\* 387-393 (YouTube path) and 535-547 (subtitle path): the indices the second pass
\* visits, empty when the pass is not entered
BackfillIndicesAnyChunk(path, chs, indices, generated, qc) ==
    IF ~(Len(generated) < qc /\ Len(chs) > 0) THEN <<>>
    ELSE Take(RangeList(Len(chs)), Min(qc - Len(generated), Len(chs)))
BackfillIndices(path, chs, indices, generated, qc) ==
    IF ~(Len(generated) < qc /\ Len(chs) > 0) THEN <<>>
    ELSE LET remaining == qc - Len(generated)
             all == RangeList(Len(chs))
             unused_indices == SelectSeq(all, LAMBDA i : i \notin Range(indices))
             used_indices == {IndexOf(chs, chs[i + 1]) : i \in Range(indices)}
             available == SelectSeq(all, LAMBDA i : i \notin used_indices)
             available_indices == IF available = <<>> THEN all ELSE available
             pool == IF path = "youtube" THEN unused_indices ELSE available_indices
         IN  Take(pool, Min(remaining, Len(pool)))

\* 362-412 and 512-565 when every call of generate_from_text returns exactly one
\* item: the number of items of the response.  The primary loop visits the selected
\* chunks until question_count items are there, the second pass one chunk per
\* index of BackfillIndices, and the list is cut to question_count.
ItemsWithOnePerCall(path, chs, qc) ==
    LET indices == IF path = "youtube" THEN SelectChunkIndices(Len(chs), qc)
                   ELSE SelectedIndices(Len(chs), qc)
        generated == Take(indices, qc)
        second == BackfillIndices(path, chs, indices, generated, qc)
    IN  Len(Truncate(generated \o second, qc))

\* the request's question_count: an integer, a value int() rejects (or none), or
\* an infinity (the JSON number 1e999)
CountInput(k) == [kind |-> "int", n |-> k]
NoCountInput == [kind |-> "invalid", n |-> 0]
InfiniteCountInput == [kind |-> "infinite", n |-> 0]
NoData == [question_count |-> NoCountInput]

\* bounds of the inputs the selection is checked on
MaxChunkCount == 45
MaxTargetCount == 20

NoSelection ==
    [done |-> FALSE, indices |-> <<>>, backfilled |-> FALSE, selected_indices |-> <<>>,
     items |-> [youtube |-> 0, subtitle |-> 0]]
SelIdle == selIn = [chunk_count |-> 0, target_count |-> 1] /\ selOut = NoSelection
StoreIdle == videos = <<>> /\ questions = <<>>
RunIdle ==
    /\ pc = "idle" /\ video_id = None /\ question_type = None /\ question_count = 0
    /\ data = NoData
    /\ chunks = <<>> /\ chunk_indices = <<>> /\ pos = 0 /\ generated_questions = <<>>
    /\ question_counter = 0 /\ backfill = <<>> /\ service = "up" /\ offCount = 0
    /\ lastCall = [pass |-> None, idx |-> 0, ok |-> TRUE, returned |-> <<>>]
GenIdle ==
    /\ StoreIdle /\ RunIdle /\ runs = 0
    /\ response = [status |-> 0, error |-> "", questions_generated |-> 0, branch |-> ""]
EvalIdle == evIn = NoEvaluation /\ evOut = NoResult /\ evPrev = NoPrevious
GrpIdle == grpIn = [n |-> 0, dt |-> 0, w |-> 1] /\ grpOut = NoGroups
CtxIdle == ctxIn = NoAssembly /\ ctxOut = NoContext
OthersIdle == GrpIdle /\ CtxIdle

(***************************************************************************)
(* Inputs of the application.                                              *)
(***************************************************************************)
VideoIds == <<"v1", "v2">>

\* at most this many generate-questions requests in one behaviour of Spec
MaxRuns == 2
\* the service answers a call with at most this many questions
MaxItemsPerCall == 2
\* While the service is up a call answers with one question, while it is down a call
\* fails; at most this many calls of one request do anything else
MaxOffCount == 1

\* n segments, each dt seconds long, back to back (dt = 0: all at time 0)
Segments(n, dt) ==
    [i \in 1..n |-> [index |-> i, start_time |-> (i - 1) * dt, end_time |-> i * dt]]
Transcript(n, dt) == [i \in 1..n |-> [start |-> (i - 1) * dt, duration |-> dt]]

NoCall == [pass |-> None, idx |-> 0, ok |-> TRUE, returned |-> <<>>]


Failure == [ok |-> FALSE, n |-> 0]
Answer(k) == [ok |-> TRUE, n |-> k]
Outcomes == {Failure} \cup {Answer(k) : k \in 0..MaxItemsPerCall}

\* The inputs each specification draws from: the (count, duration) shapes of
\* subtitle files and transcripts, the requested types and counts, and the answers
\* of the service.  Spec serves several requests over short content; SpecRun serves
\* one request over content long enough for the stride and the second pass.
AppInputs ==
    [shapes |-> {<<0, 2>>, <<7, 0>>},
     types |-> {"multiple_choice", "mixed", "essay"},
     counts |-> {NoCountInput, CountInput(25)},
     outcomes |-> {Failure, Answer(1)}, videos |-> Len(VideoIds)]
RunInputs ==
    [shapes |-> {<<0, 2>>, <<12, 2>>, <<51, 0>>, <<51, 2>>, <<56, 2>>, <<101, 2>>},
     types |-> valid_types \cup {"essay"},
     counts |-> {NoCountInput, CountInput(5), CountInput(11), CountInput(25),
                 InfiniteCountInput},
     outcomes |-> Outcomes, videos |-> 1]

\* the locals of a request are gone once another request is served
ClearRun ==
    /\ pc' = "idle" /\ video_id' = None /\ question_type' = None /\ question_count' = 0
    /\ data' = NoData
    /\ chunks' = <<>> /\ chunk_indices' = <<>> /\ pos' = 0 /\ generated_questions' = <<>>
    /\ question_counter' = 0 /\ backfill' = <<>> /\ lastCall' = NoCall
    /\ service' = "up" /\ offCount' = 0


(***************************************************************************)
(* add_video, app.py 73-105, with Video.to_dict, video.py 16-28.            *)
(***************************************************************************)
to_dict(video) ==
    [video_id |-> video.video_id,
     file_path |-> video.file_path,
     subtitle_segments_count |-> Len(video.subtitle_segments),
     topic_chunks_count |-> Len(video.topic_chunks)]

\* the request's subtitle_path: none (or no such file), a file the parser rejects,
\* or a file that parses into segments of the given shape
SubtitleInputs(shapes) ==
    {[given |-> FALSE, ok |-> TRUE, shape |-> <<0, 0>>],
     [given |-> TRUE, ok |-> FALSE, shape |-> <<0, 0>>]}
    \cup {[given |-> TRUE, ok |-> TRUE, shape |-> sh] : sh \in shapes}

\* file_path is "youtube" (a YouTube URL) or "file"
AddVideo(in) ==
    /\ pc = "idle"
    /\ Len(videos) < in.videos
    /\ \E file_path \in {"youtube", "file"}, subtitle \in SubtitleInputs(in.shapes) :
        LET new_id == VideoIds[Len(videos) + 1]
            parsed == subtitle.given /\ file_path # "youtube"
            segments == IF parsed /\ subtitle.ok
                        THEN Segments(subtitle.shape[1], subtitle.shape[2]) ELSE <<>>
            video == [video_id |-> new_id, file_path |-> file_path,
                      subtitle_segments |-> segments,
                      topic_chunks |-> group_by_topic(segments)]
        IN  IF parsed /\ ~subtitle.ok
            THEN /\ response' = [status |-> 400, error |-> "Error parsing subtitles",
                                 questions_generated |-> 0, branch |-> ""]
                 /\ UNCHANGED videos
            ELSE /\ videos' = Append(videos, to_dict(video))
                 /\ response' = [status |-> 201, error |-> "", questions_generated |-> 0,
                                 branch |-> ""]
    /\ ClearRun
    /\ UNCHANGED <<questions, runs, selVars, evVars, grpVars, ctxVars>>

\* Database.update_video, database.py 44-53: the stored dict of a video replaced by
\* one that carries topic_chunks, or one that carried them by one without
UpdateVideo(in) ==
    /\ pc = "idle"
    /\ \E i \in 1..Len(videos), shape \in in.shapes :
        /\ videos[i].file_path = "file"
        /\ shape[1] > 0
        /\ LET tc == group_by_topic(Segments(shape[1], shape[2]))
               with_chunks == [video_id |-> videos[i].video_id,
                               file_path |-> videos[i].file_path,
                               subtitle_segments_count |-> shape[1],
                               topic_chunks_count |-> Len(tc),
                               topic_chunks |-> tc]
               without_chunks == [video_id |-> videos[i].video_id,
                                  file_path |-> videos[i].file_path,
                                  subtitle_segments_count |-> shape[1],
                                  topic_chunks_count |-> Len(tc)]
               updated_video == IF "topic_chunks" \in DOMAIN videos[i]
                                THEN without_chunks ELSE with_chunks
           IN  /\ "topic_chunks" \in DOMAIN videos[i] => videos[i].topic_chunks = tc
               /\ videos' = [videos EXCEPT ![i] = updated_video]
    /\ ClearRun
    /\ response' = [status |-> 0, error |-> "", questions_generated |-> 0, branch |-> ""]
    /\ UNCHANGED <<questions, runs, selVars, evVars, grpVars, ctxVars>>

(***************************************************************************)
(* generate_questions, app.py 264-574.  The request runs from GenerateQuestions *)
(* to the response; it is cut at the calls of the generative service, one  *)
(* step per call.  pc is "idle" between requests and names the loop and    *)
(* the path ("youtube" or "subtitle") inside one.                          *)
(***************************************************************************)
PathOf(p) == IF p \in {"yt_primary", "yt_backfill"} THEN "youtube" ELSE "subtitle"

\* 411-424, 564-574: truncate, save, answer.  In a response, branch names the
\* branch of generate_questions that answered: "not_found" (269), "raised" (the
\* exception of 278), "dummy" (the except branch, 426-491), "no_chunks" (495) or
\* "chunks" (420-424, 570-574)
Finish(generated, stored, qc) ==
    /\ generated_questions' = Truncate(generated, qc)
    /\ questions' = add_questions(stored, Truncate(generated, qc))
    /\ response' = [status |-> 200, error |-> "",
                    questions_generated |-> Len(Truncate(generated, qc)),
                    branch |-> "chunks"]
    /\ pc' = "idle"
    /\ chunks' = <<>> /\ chunk_indices' = <<>> /\ backfill' = <<>> /\ pos' = 0

\* the request up to its first call of the service (or to its response, when it
\* makes none).  deleted: whether delete_questions_for_video succeeded (291-296);
\* fetch: the transcript fetch of a YouTube video, [ok, shape] (303-313)
GenerateQuestions(in) ==
    /\ pc = "idle"
    /\ \E vid \in Range(VideoIds), type_in \in in.types,
          count_in \in in.counts, deleted \in BOOLEAN, up \in BOOLEAN,
          fetch \in {[ok |-> FALSE, shape |-> <<0, 0>>]}
                    \cup {[ok |-> TRUE, shape |-> sh] : sh \in in.shapes} :
        /\ runs' = runs + 1
        /\ IF ~HasVideo(videos, vid)
           THEN /\ response' = [status |-> 404, error |-> "Video not found",
                                questions_generated |-> 0, branch |-> "not_found"]
                /\ UNCHANGED <<questions, runVars>>
           ELSE IF CountRaises(count_in)
           THEN \* 278: the exception leaves generate_questions
                /\ deleted /\ up /\ fetch = [ok |-> FALSE, shape |-> <<0, 0>>]
                /\ type_in = "multiple_choice"
                /\ response' = [status |-> 500, error |-> "Internal Server Error",
                                questions_generated |-> 0, branch |-> "raised"]
                /\ video_id' = vid /\ data' = [question_count |-> count_in]
                /\ question_type' = None /\ question_count' = 0
                /\ question_counter' = 0 /\ generated_questions' = <<>>
                /\ lastCall' = NoCall /\ offCount' = 0 /\ service' = "up"
                /\ UNCHANGED <<questions, pc, chunks, chunk_indices, pos, backfill>>
           ELSE LET video == get_video_by_id(videos, vid)
                    qc == ClampQuestionCount(count_in)
                    qtype == ValidQuestionType(type_in)
                    stored == IF deleted THEN delete_questions_for_video(questions, vid)
                              ELSE questions
                    youtube == video.file_path = "youtube"
                    chs == IF youtube
                           THEN group_by_topic(TranscriptSegments(
                                    Transcript(fetch.shape[1], fetch.shape[2])))
                           ELSE TopicChunksOf(video)
                    indices == IF youtube THEN SelectChunkIndices(Len(chs), qc)
                               ELSE SelectedIndices(Len(chs), qc)
                    calls == ~(youtube /\ ~fetch.ok) /\ indices # <<>>
                IN  /\ (~youtube => fetch = [ok |-> FALSE, shape |-> <<0, 0>>])
                    /\ (~calls => up)
                    /\ video_id' = vid /\ question_type' = qtype /\ question_count' = qc
                    /\ data' = [question_count |-> count_in]
                    /\ lastCall' = NoCall /\ offCount' = 0
                    /\ service' = IF up THEN "up" ELSE "down"
                    /\ IF youtube /\ ~fetch.ok
                       THEN \* 426-491: the except branch
                            LET dummy_questions == DummyQuestions(vid, qtype, qc, 0)
                            IN  /\ question_counter' = qc
                                /\ generated_questions' = dummy_questions
                                /\ questions' = add_questions(stored, dummy_questions)
                                /\ response' = [status |-> 200, error |-> "",
                                      questions_generated |-> Len(dummy_questions),
                                      branch |-> "dummy"]
                                /\ UNCHANGED <<pc, chunks, chunk_indices, pos, backfill>>
                       ELSE IF ~youtube /\ chs = <<>>
                       THEN \* 493-495
                            /\ response' = [status |-> 400,
                                  error |-> "No content chunks available for this video",
                                  questions_generated |-> 0, branch |-> "no_chunks"]
                            /\ questions' = stored
                            /\ question_counter' = 0 /\ generated_questions' = <<>>
                            /\ UNCHANGED <<pc, chunks, chunk_indices, pos, backfill>>
                       ELSE IF indices = <<>>
                       THEN /\ question_counter' = 0
                            /\ Finish(<<>>, stored, qc)
                       ELSE /\ question_counter' = 0 /\ generated_questions' = <<>>
                            /\ questions' = stored
                            /\ chunks' = chs /\ chunk_indices' = indices
                            /\ pos' = 1 /\ backfill' = <<>>
                            /\ pc' = IF youtube THEN "yt_primary" ELSE "sub_primary"
                            /\ UNCHANGED response
    /\ UNCHANGED <<videos, selVars, evVars, grpVars, ctxVars>>

\* one call of generate_from_text on chunk idx and the overwrite of the ids
CallChunk(idx, outcome) ==
    NumberQuestions(
        generate_from_text(video_id, chunks[idx + 1].start_time, chunks[idx + 1].end_time,
                           question_type, outcome),
        video_id, chunks[idx + 1].start_time, question_counter)

Usual == IF service = "up" THEN Answer(1) ELSE Failure
OutcomeAllowed(outcome) == outcome # Usual => offCount < MaxOffCount
OffCountAfter(outcome) == IF outcome # Usual THEN offCount + 1 ELSE offCount

\* 362-385 and 512-533: one iteration of the primary loop, and what follows the loop
\* when this was its last
PrimaryStep(in) ==
    /\ pc \in {"yt_primary", "sub_primary"}
    /\ \E outcome \in in.outcomes :
        /\ OutcomeAllowed(outcome)
        /\ LET idx == chunk_indices[pos]
               qs == CallChunk(idx, outcome)
               generated == generated_questions \o qs
               last == Len(generated) >= question_count \/ pos = Len(chunk_indices)
               second == BackfillIndices(PathOf(pc), chunks, chunk_indices, generated,
                                         question_count)
           IN  /\ question_counter' = question_counter + Len(qs)
               /\ offCount' = OffCountAfter(outcome)
               /\ lastCall' = [pass |-> "primary", idx |-> idx, ok |-> outcome.ok,
                               returned |-> qs]
               /\ IF ~last
                  THEN /\ pos' = pos + 1
                       /\ generated_questions' = generated
                       /\ UNCHANGED <<pc, chunks, chunk_indices, backfill, questions,
                                      response>>
                  ELSE IF second # <<>>
                  THEN /\ pc' = IF pc = "yt_primary" THEN "yt_backfill" ELSE "sub_backfill"
                       /\ backfill' = second /\ pos' = 1
                       /\ generated_questions' = generated
                       /\ UNCHANGED <<chunks, chunk_indices, questions, response>>
                  ELSE Finish(generated, questions, question_count)
    /\ UNCHANGED <<videos, video_id, data, question_type, question_count, service, runs,
                   selVars, evVars, grpVars, ctxVars>>

\* 393-409 and 547-562: one iteration of the second loop
BackfillStep(in) ==
    /\ pc \in {"yt_backfill", "sub_backfill"}
    /\ \E outcome \in in.outcomes :
        /\ OutcomeAllowed(outcome)
        /\ LET idx == backfill[pos]
               qs == CallChunk(idx, outcome)
               generated == generated_questions \o qs
           IN  /\ question_counter' = question_counter + Len(qs)
               /\ offCount' = OffCountAfter(outcome)
               /\ lastCall' = [pass |-> "backfill", idx |-> idx, ok |-> outcome.ok,
                               returned |-> qs]
               /\ IF pos < Len(backfill)
                  THEN /\ pos' = pos + 1
                       /\ generated_questions' = generated
                       /\ UNCHANGED <<pc, chunks, chunk_indices, backfill, questions,
                                      response>>
                  ELSE Finish(generated, questions, question_count)
    /\ UNCHANGED <<videos, video_id, data, question_type, question_count, service, runs,
                   selVars, evVars, grpVars, ctxVars>>

InitApp == SelIdle /\ GenIdle /\ EvalIdle /\ OthersIdle

StartRequest == runs < MaxRuns /\ GenerateQuestions(AppInputs)

Next ==
    \/ AddVideo(AppInputs)
    \/ UpdateVideo(AppInputs)
    \/ StartRequest
    \/ PrimaryStep(AppInputs)
    \/ BackfillStep(AppInputs)

Spec == InitApp /\ [][Next]_vars

StartOnlyRequest == runs = 0 /\ GenerateQuestions(RunInputs)

NextRun ==
    \/ AddVideo(RunInputs)
    \/ UpdateVideo(RunInputs)
    \/ StartOnlyRequest
    \/ PrimaryStep(RunInputs)
    \/ BackfillStep(RunInputs)

SpecRun == InitApp /\ [][NextRun]_vars

InitEval ==
    /\ SelIdle /\ GenIdle /\ OthersIdle
    /\ \/ \E t \in ChoiceTypes, c \in ChoiceCorrects, u \in ChoiceAnswers,
              o \in {ServiceFails} \cup ServiceAnswers :
                evIn = ChoiceEvaluation(t, c, u, o)
       \/ \E k \in KeyPointLists, u \in ShortAnswers,
              o \in {ServiceFails} \cup ServiceScored :
                evIn = ShortAnswerEvaluation(k, u, o)
       \/ evIn \in MalformedEvaluations \cup LackingEvaluations
    /\ evOut = NoResult /\ evPrev = NoPrevious

\* one verify_answer request
Evaluate ==
    /\ ~evOut.done
    /\ evOut' = verify_answer(evIn)
    /\ UNCHANGED <<evIn, evPrev, selVars, genVars, grpVars, ctxVars>>

NextEval == Evaluate
SpecEval == InitEval /\ [][NextEval]_vars

(***************************************************************************)
(* SpecPair: two answers to one short_answer item, one verify_answer       *)
(* request after the other, while the scoring service fails.               *)
(***************************************************************************)
PairAnswers == Strings(PairAlphabet, MaxShortAnswerLen)
PairEvaluations ==
    {[question |-> Question("short_answer", <<>>, k), user_answer |-> u,
      svc |-> ServiceFails, request |-> "string", lacks |-> FALSE] :
        k \in KeyPointLists, u \in PairAnswers}

InitPair ==
    /\ SelIdle /\ GenIdle /\ OthersIdle
    /\ evIn \in PairEvaluations
    /\ evOut = NoResult /\ evPrev = NoPrevious

\* the next verify_answer request on the item, with another answer
Reanswer ==
    /\ evOut.done
    /\ ~evPrev.result.done
    /\ \E u \in PairAnswers :
        /\ evPrev' = [user_answer |-> evIn.user_answer, result |-> evOut]
        /\ evIn' = [evIn EXCEPT !.user_answer = u]
        /\ evOut' = NoResult
    /\ UNCHANGED <<selVars, genVars, grpVars, ctxVars>>

NextPair == Evaluate \/ Reanswer
SpecPair == InitPair /\ [][NextPair]_vars

(***************************************************************************)
(* SpecGroup: group_by_topic on n segments with window size w.             *)
(***************************************************************************)
MaxSegments == 12
MaxWindow == 6

InitGroup ==
    /\ SelIdle /\ GenIdle /\ EvalIdle /\ CtxIdle
    /\ grpIn \in [n : 0..MaxSegments, dt : {0, 2}, w : 1..MaxWindow]
    /\ grpOut = NoGroups

Group ==
    /\ ~grpOut.done
    /\ grpOut' = [done |-> TRUE,
                  groups |-> GroupFrom(Segments(grpIn.n, grpIn.dt), 1, grpIn.w)]
    /\ UNCHANGED <<grpIn, selVars, genVars, evVars, ctxVars>>

NextGroup == Group
SpecGroup == InitGroup /\ [][NextGroup]_vars

(***************************************************************************)
(* SpecContext: the context assembled for a request, from segments         *)
(* [start_time, end_time] (their text is not modelled).  On the "ask" path *)
(* (ask_question, app.py 157-218) it is get_context_for_timestamp, 107-155;*)
(* on the "verify" path it is verify_answer, 636-652.                      *)
(***************************************************************************)
ContextWindow == 30

Abs(x) == IF x < 0 THEN -x ELSE x

\* 127-129 and 141-143
NearTimestampEndsOnly(segment, timestamp) ==
    \/ Abs(segment.start_time - timestamp) < ContextWindow
    \/ Abs(segment.end_time - timestamp) < ContextWindow
NearTimestamp(segment, timestamp) ==
    \/ Abs(segment.start_time - timestamp) < ContextWindow
    \/ Abs(segment.end_time - timestamp) < ContextWindow
    \/ (segment.start_time <= timestamp /\ segment.end_time >= timestamp)

\* the positions of the segments of a list, in order
Positions(segments) == [i \in 1..Len(segments) |-> i]

\* get_context_for_timestamp, 107-155; fetched = FALSE is a YouTube video whose
\* transcript cannot be fetched (112-133)
get_context_for_timestamp(fetched, segments, timestamp) ==
    LET relevant_segments ==
            IF fetched
            THEN SelectSeq(Positions(segments),
                           LAMBDA i : NearTimestamp(segments[i], timestamp))
            ELSE <<>>
    IN  [done |-> TRUE, relevant_segments |-> relevant_segments,
         context |-> IF relevant_segments = <<>> THEN "placeholder" ELSE "text"]

\* verify_answer, 636-652: context_text stays None when no segment is selected
VerifyContext(segments, timestamp_start, timestamp_end) ==
    LET relevant_segments ==
            SelectSeq(Positions(segments),
                      LAMBDA i : /\ segments[i].start_time <= timestamp_end
                                 /\ segments[i].end_time >= timestamp_start)
    IN  [done |-> TRUE, relevant_segments |-> relevant_segments,
         context |-> IF relevant_segments = <<>> THEN "none" ELSE "text"]

MaxTick == 4
MaxContextSegments == 2

TimeGrid == {15 * k : k \in 0..MaxTick}
Intervals ==
    {iv \in [start_time : TimeGrid, end_time : TimeGrid] : iv.start_time <= iv.end_time}
SegmentLists == UNION {[1..k -> Intervals] : k \in 0..MaxContextSegments}

AskAssemblies ==
    {[path |-> "ask", fetched |-> f, segments |-> sg, timestamp |-> t,
      timestamp_start |-> 0, timestamp_end |-> 0] :
        f \in BOOLEAN, sg \in SegmentLists, t \in TimeGrid}
VerifyAssemblies ==
    {[path |-> "verify", fetched |-> TRUE, segments |-> sg, timestamp |-> 0,
      timestamp_start |-> iv.start_time, timestamp_end |-> iv.end_time] :
        sg \in SegmentLists, iv \in Intervals}

InitContext ==
    /\ SelIdle /\ GenIdle /\ EvalIdle /\ GrpIdle
    /\ ctxIn \in AskAssemblies \cup VerifyAssemblies
    /\ ctxOut = NoContext

AskContext ==
    /\ ctxIn.path = "ask" /\ ~ctxOut.done
    /\ ctxOut' = get_context_for_timestamp(ctxIn.fetched, ctxIn.segments, ctxIn.timestamp)
    /\ UNCHANGED <<ctxIn, selVars, genVars, evVars, grpVars>>

VerifyAnswerContext ==
    /\ ctxIn.path = "verify" /\ ~ctxOut.done
    /\ ctxOut' = VerifyContext(ctxIn.segments, ctxIn.timestamp_start, ctxIn.timestamp_end)
    /\ UNCHANGED <<ctxIn, selVars, genVars, evVars, grpVars>>

NextContext == AskContext \/ VerifyAnswerContext
SpecContext == InitContext /\ [][NextContext]_vars

(***************************************************************************)
(* SpecService: the calls of the generative service, by generate_questions *)
(* (one request over a short subtitle file or transcript) and by           *)
(* verify_answer (one answer to one item).                                 *)
(***************************************************************************)
ServiceInputs ==
    [shapes |-> {<<12, 2>>},
     types |-> {"multiple_choice", "fill_in_the_blank"},
     counts |-> {NoCountInput},
     outcomes |-> {Failure, Answer(1)}, videos |-> 1]

ServiceEvaluations ==
    {ChoiceEvaluation(t, <<"a">>, u, o) :
        t \in ChoiceTypes, u \in {<<"a">>, <<"b">>},
        o \in {ServiceFails} \cup ServiceAnswers}
    \cup
    {ShortAnswerEvaluation(k, u, o) :
        k \in {kp \in KeyPointLists : Len(kp) <= 1},
        u \in {<<"a">>, <<"a", "a", "a", "a", " ", "1">>},
        o \in {ServiceFails} \cup {sc \in ServiceScored : sc.score = 75}}

InitService ==
    /\ SelIdle /\ GenIdle /\ OthersIdle
    /\ evIn \in ServiceEvaluations
    /\ evOut = NoResult /\ evPrev = NoPrevious

StartServiceRequest == runs = 0 /\ GenerateQuestions(ServiceInputs)

NextService ==
    \/ AddVideo(ServiceInputs)
    \/ UpdateVideo(ServiceInputs)
    \/ StartServiceRequest
    \/ PrimaryStep(ServiceInputs)
    \/ BackfillStep(ServiceInputs)
    \/ Evaluate

SpecService == InitService /\ [][NextService]_vars

InitSelect ==
    /\ selIn \in [chunk_count : 0..MaxChunkCount, target_count : 1..MaxTargetCount]
    /\ selOut = NoSelection
    /\ GenIdle /\ EvalIdle /\ OthersIdle

Select ==
    /\ ~selOut.done
    /\ LET chs == group_by_topic(Segments(selIn.chunk_count * window_size, 2))
       IN  selOut' =
             [done |-> TRUE,
              indices |-> SelectChunkIndices(selIn.chunk_count, selIn.target_count),
              backfilled |-> /\ selIn.chunk_count > selIn.target_count
                             /\ NeedsSelectBackfill(selIn.chunk_count,
                                                    selIn.target_count),
              selected_indices |-> SelectedIndices(selIn.chunk_count,
                                                   selIn.target_count),
              items |-> [youtube |-> ItemsWithOnePerCall("youtube", chs,
                                                         selIn.target_count),
                         subtitle |-> ItemsWithOnePerCall("subtitle", chs,
                                                          selIn.target_count)]]
    /\ UNCHANGED <<selIn, genVars, evVars, grpVars, ctxVars>>

NextSelect == Select

SpecSelect == InitSelect /\ [][NextSelect]_vars

(***************************************************************************)
(* Properties                                                              *)
(***************************************************************************)
StrictlyIncreasing(s) == \A i \in 1..(Len(s) - 1) : s[i] < s[i + 1]

\* C1: for every chunk_count >= 0 and target_count >= 1 the selection returns
\* exactly min(chunk_count, target_count) indices, strictly increasing, each in
\* [0, chunk_count).
C1_SelectionCountOrderRange ==
    selOut.done =>
        /\ Len(selOut.indices) = Min(selIn.chunk_count, selIn.target_count)
        /\ StrictlyIncreasing(selOut.indices)
        /\ \A i \in 1..Len(selOut.indices) :
              selOut.indices[i] >= 0 /\ selOut.indices[i] < selIn.chunk_count

C1_Witness ==
    /\ selOut.done
    /\ selIn.chunk_count = 11 /\ selIn.target_count = 10
    /\ Len(selOut.indices) = 10 /\ selOut.indices[10] = 9

\* C2: the selection equals the reference rule: all indices 0..chunk_count-1 when
\* chunk_count <= target_count, otherwise i * stride for i in 0..target_count-1 with
\* stride = chunk_count // target_count >= 1; the backfill branch is never entered.
C2_SelectionIsReferenceRule ==
    selOut.done =>
        LET n == selIn.chunk_count
            t == selIn.target_count
            stride == n \div t
        IN  /\ ~selOut.backfilled
            /\ n <= t => selOut.indices = [i \in 1..n |-> i - 1]
            /\ n > t => /\ stride >= 1
                        /\ selOut.indices = [i \in 1..t |-> (i - 1) * stride]

C2_Witness ==
    /\ selOut.done
    /\ selIn.chunk_count = 8 /\ selIn.target_count = 4
    /\ selOut.indices = <<0, 2, 4, 6>>

DistinctIds(qs) ==
    \A i \in 1..Len(qs) : \A j \in (i + 1)..Len(qs) : qs[i].question_id # qs[j].question_id

\* a generate-questions request has answered through the named branch
Answered(branch) == pc = "idle" /\ response.branch = branch

\* C3: a generation run never returns or persists more than target_count items,
\* whatever the service or its fallback returns per chunk.
C3_AtMostTargetCount ==
    (Answered("chunks") \/ Answered("dummy")) =>
        /\ Len(generated_questions) <= question_count
        /\ response.questions_generated = Len(generated_questions)
        /\ questions = generated_questions

\* the service failed on every chunk and the run produced more than it returned
C3_Witness ==
    /\ Answered("chunks")
    /\ service = "down" /\ offCount = 0
    /\ question_counter > question_count
    /\ Len(generated_questions) = question_count
    /\ questions = generated_questions

\* C4: within one run the counter embedded in question_id starts at 0 and is
\* incremented once per item across the primary pass, the second pass and the dummy
\* path, so the items of the run are numbered 0, 1, 2, ... and no two share an id.
C4_CounterNumbersItems ==
    /\ \A i \in 1..Len(generated_questions) :
          generated_questions[i].question_id[3] = i - 1
    /\ pc # "idle" => question_counter = Len(generated_questions)
    /\ Len(generated_questions) <= question_counter
    /\ DistinctIds(generated_questions)

\* a finished run whose items come from both passes
C4_Witness ==
    /\ Answered("chunks")
    /\ lastCall.pass = "backfill" /\ Len(lastCall.returned) >= 1
    /\ Len(generated_questions) = question_count
    /\ generated_questions[1].question_id[2] = generated_questions[2].question_id[2]

\* C5: the items stored for a video have pairwise distinct question_id values after
\* any sequence of generate-questions requests, also when a delete-existing step
\* failed and was skipped.
C5_StoredIdsUnique ==
    \A i \in 1..Len(questions) : \A j \in (i + 1)..Len(questions) :
        questions[i].video_id = questions[j].video_id
            => questions[i].question_id # questions[j].question_id

\* C6: a failed service call does not abort the run; the chunk contributes a single
\* fallback item of the requested type.
C6_FailedCallGivesOneFallbackItem ==
    (lastCall.pass # None /\ ~lastCall.ok) =>
        /\ Len(lastCall.returned) = 1
        /\ lastCall.returned[1].type = question_type
        /\ pc # "idle" \/ response.branch = "chunks"

\* the request found no chunk: an empty transcript, or a video without topic_chunks
NoChunksFound ==
    Answered("no_chunks") \/ (Answered("chunks") /\ lastCall = NoCall)

Trimmed(s) ==
    LET solid == {i \in 1..Len(s) : s[i] # " "}
    IN  IF solid = {} THEN <<>>
        ELSE SubSeq(s, CHOOSE i \in solid : \A j \in solid : i <= j,
                       CHOOSE i \in solid : \A j \in solid : j <= i)
Normalized(s) ==
    LET t == Trimmed(s)
    IN  [i \in 1..Len(t) |-> CASE t[i] = "A" -> "a" [] t[i] = "B" -> "b" [] OTHER -> t[i]]
IsSubstring(a, b) ==
    \E i \in 0..Len(b) : \E j \in i..Len(b) : a = [k \in 1..(j - i) |-> b[i + k]]
Evaluated(type) ==
    /\ evOut.done /\ evOut.status = 200
    /\ evIn.request = "string"
    /\ evIn.question.type = type

\* C8: for a multiple_choice item is_correct is true exactly when user_answer is
\* identical (case-sensitive, no trimming) to the item's correct_answer, whether the
\* feedback service succeeds or fails, and the result carries no partial state.
C8_MultipleChoiceExactMatch ==
    Evaluated("multiple_choice") =>
        /\ evOut.is_correct = (evIn.user_answer = evIn.question.correct_answer)
        /\ ~evOut.has_partial

\* an answer that differs from the correct id only by case, with the service failing
C8_Witness ==
    /\ Evaluated("multiple_choice")
    /\ evIn.user_answer # evIn.question.correct_answer
    /\ Normalized(evIn.user_answer) = Normalized(evIn.question.correct_answer)
    /\ evIn.question.correct_answer # <<>>
    /\ ~evIn.svc.ok
    /\ ~evOut.is_correct

\* C9: for a fill_in_the_blank item, after trimming and lower-casing both strings, the
\* result is correct iff they are equal, else partial iff either is a substring of the
\* other, else incorrect, on the service-success and the service-failure path alike.
C9_FillInBlankClassification ==
    Evaluated("fill_in_the_blank") =>
        LET u == Normalized(evIn.user_answer)
            c == Normalized(evIn.question.correct_answer)
        IN  /\ evOut.has_partial
            /\ evOut.is_correct = (u = c)
            /\ evOut.is_partial = (u # c /\ (IsSubstring(u, c) \/ IsSubstring(c, u)))

\* a partial result that needs both the trimming and the lower-casing, with the
\* service failing
C9_Witness ==
    /\ Evaluated("fill_in_the_blank")
    /\ evOut.is_partial /\ ~evOut.is_correct
    /\ ~evIn.svc.ok
    /\ Trimmed(evIn.user_answer) # evIn.user_answer
    /\ Normalized(evIn.user_answer) # Trimmed(evIn.user_answer)
    /\ Normalized(evIn.user_answer) # <<>>
    /\ ~IsSubstring(evIn.user_answer, evIn.question.correct_answer)
    /\ ~IsSubstring(evIn.question.correct_answer, evIn.user_answer)

\* C10: for a short_answer item whose trimmed answer has fewer than 5 characters (or is
\* purely alphabetic with fewer than 4), the result is score_percentage = 0,
\* is_correct = false, is_partial = false, and the service is not called during the
\* evaluation.
C10_ShortAnswerGuard ==
    LET t == Trimmed(evIn.user_answer)
        alphabetic == t # <<>> /\ \A i \in 1..Len(t) : t[i] \in {"a", "A", "b", "B"}
    IN  (Evaluated("short_answer") /\ (Len(t) < 5 \/ (alphabetic /\ Len(t) < 4))) =>
            /\ evOut.has_score /\ evOut.score_percentage = 0
            /\ ~evOut.is_correct
            /\ evOut.has_partial /\ ~evOut.is_partial
            /\ evOut.calls = 0

\* a four-character answer with a digit in it, which the service would have scored 100
C10_Witness ==
    /\ Evaluated("short_answer")
    /\ Len(Trimmed(evIn.user_answer)) = 4
    /\ \E i \in 1..Len(evIn.user_answer) : evIn.user_answer[i] = "1"
    /\ evIn.svc.ok /\ evIn.svc.score = 100
    /\ evOut.score_percentage = 0 /\ evOut.calls = 0

\* a short answer that passed the guard of the evaluator
PassedGuard == Evaluated("short_answer") /\ Len(Trimmed(evIn.user_answer)) >= 5

\* C11: for a short_answer item that passes the guard, is_correct is true exactly when
\* score >= 75 and is_partial exactly when 30 <= score < 75, for the score the service
\* returned and for the score of the fallback heuristic alike.
C11_ScoreThresholds ==
    PassedGuard =>
        /\ evOut.has_score /\ evOut.has_partial
        /\ (evIn.svc.ok => evOut.score_percentage = evIn.svc.score)
        /\ evOut.is_correct = (evOut.score_percentage >= 75)
        /\ evOut.is_partial = (30 <= evOut.score_percentage /\ evOut.score_percentage < 75)

\* the service answers 75, the lowest score that counts as correct
C11_Witness ==
    /\ PassedGuard
    /\ evIn.svc.ok /\ evIn.svc.score = 75
    /\ evOut.is_correct /\ ~evOut.is_partial

\* The key points an answer matches, stated without the operators of the evaluator: a
\* key point matches when one of its words of more than 3 characters occurs in the
\* answer, letter case ignored.
LowerOf(s) ==
    [i \in 1..Len(s) |-> CASE s[i] = "A" -> "a" [] s[i] = "B" -> "b" [] OTHER -> s[i]]
IsWordAt(point, i, j) ==
    /\ \A k \in i..j : point[k] # " "
    /\ (i = 1 \/ point[i - 1] = " ")
    /\ (j = Len(point) \/ point[j + 1] = " ")
PointMatches(point, answer) ==
    \E i \in 1..Len(point) : \E j \in (i + 3)..Len(point) :
        IsWordAt(point, i, j) /\ IsSubstring(LowerOf(SubSeq(point, i, j)), LowerOf(answer))
MatchedKeyPoints(key_points, answer) ==
    Cardinality({i \in 1..Len(key_points) : PointMatches(key_points[i], answer)})
FallbackScored == PassedGuard /\ ~evIn.svc.ok

\* C12 (as stated): when the scoring service fails for a short_answer item, the score
\* equals min(70, round(matched_key_points / total_key_points * 60)).
C12_FallbackScoreRounded ==
    FallbackScored =>
        LET total == Len(evIn.question.key_points)
            matched == MatchedKeyPoints(evIn.question.key_points, evIn.user_answer)
        IN  evOut.score_percentage =
                IF matched = 0 THEN 0 ELSE Min(70, RoundHalfEven(matched * 60, total))

\* C12 (amended): when the scoring service fails for a short_answer item that passed
\* the guard, the score equals min(70, floor(matched_key_points / total_key_points * 60)),
\* the quotient cut to an integer and not rounded; it is 0 when no key point matches.
C12_FallbackScoreTruncated ==
    FallbackScored =>
        LET total == Len(evIn.question.key_points)
            matched == MatchedKeyPoints(evIn.question.key_points, evIn.user_answer)
        IN  evOut.score_percentage =
                IF matched = 0 THEN 0 ELSE Min(70, (matched * 60) \div total)

\* one key point of seven matched: 60/7 is cut to 8 where rounding gives 9
C12_Witness ==
    /\ FallbackScored
    /\ Len(evIn.question.key_points) = 7
    /\ MatchedKeyPoints(evIn.question.key_points, evIn.user_answer) = 1
    /\ evOut.score_percentage = 8

\* two evaluations of one short_answer item were made while the service failed
PairScored ==
    /\ Evaluated("short_answer") /\ evPrev.result.done
    /\ ~evIn.svc.ok

\* C13 (as stated): with the scoring service forced to fail, for one short_answer item
\* and any two answers, the answer that matches more key points never receives a lower
\* score than the other.
C13_MoreMatchesNeverLower ==
    PairScored =>
        LET kp == evIn.question.key_points
        IN  /\ MatchedKeyPoints(kp, evPrev.user_answer) > MatchedKeyPoints(kp, evIn.user_answer)
                => evPrev.result.score_percentage >= evOut.score_percentage
            /\ MatchedKeyPoints(kp, evIn.user_answer) > MatchedKeyPoints(kp, evPrev.user_answer)
                => evOut.score_percentage >= evPrev.result.score_percentage

\* C13 (amended): with the scoring service forced to fail, for one short_answer item and
\* any two answers of at least 5 characters after trimming, the answer that matches
\* more key points never receives a lower score than the other; a shorter answer
\* scores 0 whatever it matches.
C13_MoreMatchesNeverLowerPastGuard ==
    PairScored =>
        LET kp == evIn.question.key_points
            long(u) == Len(Trimmed(u)) >= 5
        IN  /\ (long(evPrev.user_answer) /\ long(evIn.user_answer)) =>
                /\ MatchedKeyPoints(kp, evPrev.user_answer)
                       > MatchedKeyPoints(kp, evIn.user_answer)
                     => evPrev.result.score_percentage >= evOut.score_percentage
                /\ MatchedKeyPoints(kp, evIn.user_answer)
                       > MatchedKeyPoints(kp, evPrev.user_answer)
                     => evOut.score_percentage >= evPrev.result.score_percentage
            /\ ~long(evIn.user_answer) => evOut.score_percentage = 0
            /\ ~long(evPrev.user_answer) => evPrev.result.score_percentage = 0

\* two answers past the guard, the first matching two key points and scoring higher
\* than the second, which matches one
C13_Witness ==
    /\ PairScored
    /\ Len(Trimmed(evPrev.user_answer)) >= 5 /\ Len(Trimmed(evIn.user_answer)) >= 5
    /\ MatchedKeyPoints(evIn.question.key_points, evPrev.user_answer) = 2
    /\ MatchedKeyPoints(evIn.question.key_points, evIn.user_answer) = 1
    /\ evPrev.result.score_percentage > evOut.score_percentage
    /\ evOut.score_percentage > 0

\* C14: with the scoring service forced to fail, a short_answer evaluation never reports
\* a score_percentage above 70, for every answer and every key-point list, the empty
\* list included.
C14_FallbackScoreAtMostSeventy ==
    (Evaluated("short_answer") /\ ~evIn.svc.ok) =>
        /\ evOut.has_score
        /\ evOut.score_percentage <= 70
        /\ evOut.score_percentage >= 0

\* every key point of a list of two is matched while the service fails
C14_Witness ==
    /\ FallbackScored
    /\ Len(evIn.question.key_points) = 2
    /\ MatchedKeyPoints(evIn.question.key_points, evIn.user_answer) = 2
    /\ evOut.score_percentage = 60

RECURSIVE Flatten(_)
Flatten(groups) ==
    IF groups = <<>> THEN <<>> ELSE Head(groups).segments \o Flatten(Tail(groups))

\* C15: group_by_topic partitions the segment sequence into contiguous, non-overlapping
\* windows in order: n segments and a window size w >= 1 give ceil(n/w) chunks, every
\* chunk but the last has exactly w segments, the chunks' segments concatenated are
\* the input, each chunk's start_time and end_time are those of its first and last
\* segment, and an empty input gives no chunks.
C15_GroupsPartitionSegments ==
    grpOut.done =>
        LET segments == Segments(grpIn.n, grpIn.dt)
            groups == grpOut.groups
            w == grpIn.w
        IN  /\ Len(groups) = (grpIn.n + w - 1) \div w
            /\ \A i \in 1..(Len(groups) - 1) : Len(groups[i].segments) = w
            /\ \A i \in 1..Len(groups) :
                /\ Len(groups[i].segments) \in 1..w
                /\ groups[i].start_time = groups[i].segments[1].start_time
                /\ groups[i].end_time =
                       groups[i].segments[Len(groups[i].segments)].end_time
                /\ groups[i].start_index = (i - 1) * w + 1
                /\ groups[i].end_index = Min(i * w, grpIn.n)
            /\ Flatten(groups) = segments
            /\ (grpIn.n = 0 => groups = <<>>)

\* twelve segments in windows of five: chunks of 5, 5 and 2 segments
C15_Witness ==
    /\ grpOut.done
    /\ grpIn.n = 12 /\ grpIn.w = 5 /\ grpIn.dt = 2
    /\ Len(grpOut.groups) = 3
    /\ Len(grpOut.groups[3].segments) = 2
    /\ grpOut.groups[3].end_time = 24

\* C16: for every item variant (multiple_choice, fill_in_the_blank, short_answer), if
\* the call of the feedback service fails or returns a feedback text shorter than 20
\* characters, the returned enhanced_feedback is the template substitute and the
\* additional_resources come from the fixed fallback pool, never the service's text.
C16_ShortFeedbackSubstituted ==
    (/\ evOut.done
     /\ evIn.question.type \in {"multiple_choice", "fill_in_the_blank", "short_answer"}
     /\ evOut.calls > 0
     /\ (~evIn.svc.ok \/ ~evIn.svc.long)) =>
        /\ evOut.enhanced_feedback.source # "service"
        /\ evOut.additional_resources = "fallback"

\* the evaluation returned a text of the evaluator's own, not the service's
Substituted ==
    /\ evOut.done /\ evOut.status = 200
    /\ evOut.enhanced_feedback.source # "service"
MatchingPool == IF evOut.is_correct THEN "correct" ELSE "incorrect"

\* C17 (as stated): whenever template fallback feedback is produced, it consists of an
\* opener taken from the pool matching the correctness state (the correct pool iff
\* is_correct, otherwise the incorrect pool) followed by text that includes the original
\* explanation.
C17_TemplateOpenerAndExplanation ==
    Substituted =>
        /\ evOut.enhanced_feedback.pool = MatchingPool
        /\ evOut.enhanced_feedback.explanation

\* C17 (amended): the substitute text of a multiple_choice item (and of an item of an
\* unknown variant) is an opener from the pool matching is_correct followed by text
\* that includes the original explanation.  For fill_in_the_blank a correct answer
\* gets an opener from the correct pool and no explanation, a partial answer gets no
\* opener and the explanation, an incorrect answer gets an opener from the incorrect
\* pool and the explanation.  The substitute texts of short_answer have no opener and
\* include the explanation.
C17_TemplateByVariant ==
    Substituted =>
        LET text == evOut.enhanced_feedback
        IN  CASE evIn.question.type = "fill_in_the_blank" ->
                    IF evOut.is_correct
                    THEN text.pool = "correct" /\ ~text.explanation
                    ELSE IF evOut.is_partial
                    THEN text.pool = "none" /\ text.explanation
                    ELSE text.pool = "incorrect" /\ text.explanation
              [] evIn.question.type = "short_answer" ->
                    text.pool = "none" /\ text.explanation
              [] OTHER -> text.pool = MatchingPool /\ text.explanation

\* a correct fill_in_the_blank answer while the service fails: an opener of the
\* correct pool, and no explanation
C17_Witness ==
    /\ Substituted
    /\ evIn.question.type = "fill_in_the_blank"
    /\ ~evIn.svc.ok
    /\ evOut.is_correct
    /\ evOut.enhanced_feedback.pool = "correct"
    /\ ~evOut.enhanced_feedback.explanation

\* The segments of the input whose interval meets the open window of 30 seconds either
\* side of a timestamp, or contains the timestamp; those that meet a closed interval.
OverlapsWindow(segment, timestamp) ==
    \/ (segment.start_time < timestamp + 30 /\ segment.end_time > timestamp - 30)
    \/ (segment.start_time <= timestamp /\ timestamp <= segment.end_time)
WindowSelection(timestamp) ==
    {i \in 1..Len(ctxIn.segments) : OverlapsWindow(ctxIn.segments[i], timestamp)}
IntervalSelection ==
    {i \in 1..Len(ctxIn.segments) :
        /\ ctxIn.segments[i].start_time <= ctxIn.timestamp_end
        /\ ctxIn.segments[i].end_time >= ctxIn.timestamp_start}
Selected == Range(ctxOut.relevant_segments)

\* C18 (as stated): context assembly, on the question-answering path and on the verify
\* path, selects exactly the segments whose interval overlaps the window of 30 seconds
\* either side of the reference timestamp or contains the timestamp, and passes on a
\* placeholder string when no segment is selected (on the verify path the reference
\* timestamp is taken to be an end of the item's interval, and the None the prompts
\* print as 'Not available' is taken for the placeholder).
C18_ContextWindowOnBothPaths ==
    ctxOut.done =>
        /\ \/ (ctxIn.path = "ask" /\ ctxIn.fetched /\ Selected = WindowSelection(ctxIn.timestamp))
           \/ (ctxIn.path = "ask" /\ ~ctxIn.fetched /\ Selected = {})
           \/ (ctxIn.path = "verify" /\ \E t \in {ctxIn.timestamp_start, ctxIn.timestamp_end} :
                                             Selected = WindowSelection(t))
        /\ IF Selected = {} THEN ctxOut.context \in {"placeholder", "none"}
           ELSE ctxOut.context = "text"

\* C18 (amended): on the question-answering path the context is made of exactly the
\* segments with an end closer than 30 seconds to the timestamp or containing it (none
\* when the transcript cannot be fetched), and a placeholder sentence when there is
\* none.  On the verify path it is made of exactly the segments that meet the item's
\* [timestamp_start, timestamp_end], without a margin, and no context (None) is passed
\* on when there is none.
C18_ContextByPath ==
    ctxOut.done =>
        IF ctxIn.path = "ask"
        THEN /\ Selected = IF ctxIn.fetched THEN WindowSelection(ctxIn.timestamp) ELSE {}
             /\ ctxOut.context = IF Selected = {} THEN "placeholder" ELSE "text"
        ELSE /\ Selected = IntervalSelection
             /\ ctxOut.context = IF Selected = {} THEN "none" ELSE "text"

\* the verify path leaves out a segment that lies within 30 seconds of the item
C18_Witness ==
    /\ ctxOut.done /\ ctxIn.path = "verify"
    /\ ctxIn.timestamp_start = ctxIn.timestamp_end
    /\ WindowSelection(ctxIn.timestamp_start) # {}
    /\ Selected = {}
    /\ ctxOut.context = "none"

\* C19: an answer-submission request whose user_answer is missing or not a string, or
\* whose stored item lacks fields required by its variant, is rejected immediately: no
\* EvaluationResult is produced and the generative service is not called.
C19_MalformedInputRejected ==
    (evOut.done /\ (evIn.request \in {"missing", "number"} \/ evIn.lacks)) =>
        /\ evOut.status # 200
        /\ evOut.calls = 0

\* the chunk indices the primary pass did not select
UnusedIndices == {i \in 0..(Len(chunks) - 1) : i \notin Range(chunk_indices)}

\* C20: if the primary pass leaves the accumulator short of target_count while unused
\* chunk indices remain, the backfill pass keeps requesting items from unused indices
\* in ascending order until the accumulator reaches target_count or every unused index
\* has been tried, even when some chunks return zero items.
C20_BackfillUntilFullOrExhausted ==
    [][(pc \in {"yt_backfill", "sub_backfill"} /\ pc' = "idle" /\ UnusedIndices # {}) =>
          \/ Len(generated_questions') >= question_count
          \/ UnusedIndices \subseteq Range(backfill)]_vars

\* a generate-questions request has found its video and read its body
ReadRequest == video_id # None

\* C28: the target count used by a generate-questions request is an integer in
\* 10..20: a requested question_count below 10, missing or not convertible to an
\* integer becomes 10 and one above 20 becomes 20, so that a run never returns more
\* than 20 items.
C28_TargetCountClamped ==
    ReadRequest =>
        LET requested == data.question_count
        IN  /\ question_count \in 10..20
            /\ (requested.kind = "int" /\ requested.n \in 10..20)
                  => question_count = requested.n
            /\ (requested.kind = "int" /\ requested.n < 10) => question_count = 10
            /\ (requested.kind = "int" /\ requested.n > 20) => question_count = 20
            /\ requested.kind # "int" => question_count = 10
            /\ pc = "idle" => Len(generated_questions) <= 20
            /\ response.questions_generated <= 20

\* C27: after add_video has stored a video that is not a YouTube video and whose
\* subtitle file parsed into at least one segment, a generate-questions request for
\* that video finds its topic chunks and does not answer "No content chunks
\* available for this video".
C27_AddedVideoFindsItsChunks ==
    (Answered("no_chunks") /\ HasVideo(videos, video_id)) =>
        get_video_by_id(videos, video_id).subtitle_segments_count = 0

\* a step that serves a generate-questions request up to its response
AnswersAtOnce == runs' = runs + 1 /\ pc' = "idle"

\* C24: a generate-questions request that ends in an error response (video not
\* found, no content chunks available) leaves the persisted items as they were
\* before the request; the stored items of a video are removed only when
\* replacements are inserted.
C24_ErrorLeavesItemsUnchanged ==
    [][AnswersAtOnce =>
          /\ response'.status >= 400 => questions' = questions
          /\ (\E q \in Range(questions) :
                 q.video_id = video_id' /\ q \notin Range(questions'))
                => get_questions_for_video(questions', video_id') # <<>>]_vars

\* a step of a generate-questions request: its start, or one of its service calls
RequestStep == runs' = runs + 1 \/ pc # "idle"

\* C29: a generate-questions request for video v changes only the stored items of
\* v: the videos collection and the stored items of every other video stay as they
\* were, and after a successful request the stored items of v are exactly the items
\* the request returned.
C29_RequestChangesOnlyItsItems ==
    [][RequestStep =>
          /\ videos' = videos
          /\ \A i \in 1..Len(VideoIds) :
                VideoIds[i] # video_id' =>
                    get_questions_for_video(questions', VideoIds[i])
                        = get_questions_for_video(questions, VideoIds[i])
          /\ (pc' = "idle" /\ response'.status = 200) =>
                get_questions_for_video(questions', video_id') = generated_questions']_vars

NoRepeat(s) == \A i \in 1..Len(s) : \A j \in (i + 1)..Len(s) : s[i] # s[j]
InSecondPass == pc \in {"yt_backfill", "sub_backfill"}

\* the second pass visits no chunk the primary pass selected
SecondPassUnusedOnly == Range(backfill) \cap Range(chunk_indices) = {}

\* C21 (as stated): within one generation run each chunk is submitted to the
\* generative service at most once: the second pass draws only from chunk indices
\* the primary pass did not use.
C21_ChunkSubmittedAtMostOnce ==
    /\ NoRepeat(chunk_indices)
    /\ InSecondPass => NoRepeat(backfill) /\ SecondPassUnusedOnly

\* C21 (amended): neither pass visits a chunk twice.  On the YouTube path the second
\* pass visits only chunks the primary pass did not select.  On the subtitle path it
\* does so as long as such a chunk exists; when the primary pass selected every chunk
\* it visits the chunks again from the first on, so a chunk is submitted at most twice.
C21_ChunkReusedOnlyWhenAllUsed ==
    /\ NoRepeat(chunk_indices)
    /\ InSecondPass => NoRepeat(backfill)
    /\ pc = "yt_backfill" => SecondPassUnusedOnly
    /\ pc = "sub_backfill" =>
          \/ SecondPassUnusedOnly
          \/ /\ Range(chunk_indices) = 0..(Len(chunks) - 1)
             /\ \A i \in 1..Len(backfill) : backfill[i] = i - 1

\* a chunk of the subtitle path submitted a second time
C21_Witness ==
    /\ pc = "sub_backfill"
    /\ lastCall.pass = "backfill"
    /\ lastCall.idx \in Range(chunk_indices)

\* consecutive indices are stride apart and fewer than 2 * stride chunks follow the
\* last index
EvenlyCovers(indices, n, stride) ==
    /\ \A i \in 1..(Len(indices) - 1) : indices[i + 1] - indices[i] = stride
    /\ indices # <<>> => (n - 1) - indices[Len(indices)] < 2 * stride

\* C22: when chunk_count > target_count the selected indices evenly cover the
\* transcript: consecutive selected indices are exactly stride apart, and the
\* unselected tail after the last selected index is shorter than 2 * stride.
C22_SelectionEvenlyCovers ==
    (selOut.done /\ selIn.chunk_count > selIn.target_count) =>
        LET stride == selIn.chunk_count \div selIn.target_count
        IN  /\ EvenlyCovers(selOut.indices, selIn.chunk_count, stride)
            /\ EvenlyCovers(selOut.selected_indices, selIn.chunk_count, stride)

\* C30 (as stated): the YouTube-transcript path and the subtitle-file path select the
\* same primary chunk indices for every chunk_count and target count and, when every
\* chunk yields exactly one item, return the same number of items.
C30_PathsAgree ==
    selOut.done =>
        /\ selOut.selected_indices = selOut.indices
        /\ selOut.items.subtitle = selOut.items.youtube

\* C30 (amended): the two paths select the same primary chunk indices for every
\* chunk_count and target count.  When every chunk yields exactly one item they
\* return the same number of items, min(chunk_count, target_count), if
\* chunk_count >= target_count or chunk_count = 0; for 0 < chunk_count < target_count
\* the YouTube path returns chunk_count items and the subtitle path, which visits
\* chunks again, min(target_count, 2 * chunk_count).
C30_PathsAgreeOnIndices ==
    selOut.done =>
        LET n == selIn.chunk_count
            t == selIn.target_count
        IN  /\ selOut.selected_indices = selOut.indices
            /\ selOut.items.youtube = Min(n, t)
            /\ (n >= t \/ n = 0) => selOut.items.subtitle = selOut.items.youtube
            /\ (0 < n /\ n < t) => selOut.items.subtitle = Min(t, 2 * n)

C30_Witness ==
    /\ selOut.done
    /\ selIn.chunk_count = 3 /\ selIn.target_count = 10
    /\ selOut.indices = <<0, 1, 2>> /\ selOut.selected_indices = <<0, 1, 2>>
    /\ selOut.items = [youtube |-> 3, subtitle |-> 6]

\* C25: in every EvaluationResult that carries both flags (fill_in_the_blank and
\* short_answer items, on the guard, service and fallback paths), is_correct and
\* is_partial are never both true.
C25_CorrectAndPartialExclusive ==
    /\ (Evaluated("fill_in_the_blank") \/ Evaluated("short_answer")) => evOut.has_partial
    /\ (evOut.done /\ evOut.has_partial) => ~(evOut.is_correct /\ evOut.is_partial)

\* a short answer the service scores 75: correct, and not partial
C25_Witness ==
    /\ Evaluated("short_answer")
    /\ evOut.calls = 1 /\ evIn.svc.ok
    /\ evOut.score_percentage = 75
    /\ evOut.is_correct /\ ~evOut.is_partial

\* C26: for a fill_in_the_blank item whose correct answer is not empty after
\* normalization, a user answer that is empty or made of whitespace only is classified
\* partial (is_partial true, is_correct false).
C26_EmptyAnswerIsPartial ==
    (/\ Evaluated("fill_in_the_blank")
     /\ Normalized(evIn.question.correct_answer) # <<>>
     /\ Trimmed(evIn.user_answer) = <<>>)
        => evOut.has_partial /\ evOut.is_partial /\ ~evOut.is_correct

C26_Witness ==
    /\ Evaluated("fill_in_the_blank")
    /\ evIn.question.correct_answer = <<"a", "b">>
    /\ evIn.user_answer = <<" ", " ">>
    /\ evOut.is_partial /\ ~evOut.is_correct

\* a step of generate_questions that calls generate_from_text on one chunk
ServiceCallStep == pc # "idle" /\ UNCHANGED evVars

\* the items of the fallback for the chunk the step visited, numbered as the step
\* numbers them
FallbackOfVisit(idx) ==
    LET chunk == chunks[idx + 1]
        items == _generate_fallback_questions(video_id, chunk.start_time, chunk.end_time,
                                              question_type)
    IN  [i \in 1..Len(items) |->
            [items[i] EXCEPT !.question_id = <<video_id, chunk.start_time,
                                               question_counter + i - 1>>]]

\* C23: there is no retry.  Each evaluation calls the generative service at most once,
\* and each visit of a chunk during generation calls it at most once: a call is
\* followed by the next position of the pass or by the end of the pass, and a failed
\* call directly by the fallback result.
C23_NoRetry ==
    [][/\ evOut'.done =>
             /\ evOut'.calls <= 1
             /\ (evOut'.calls = 1 /\ ~evIn'.svc.ok) =>
                   /\ evOut'.additional_resources = "fallback"
                   /\ evOut'.enhanced_feedback.source # "service"
       /\ ServiceCallStep =>
             /\ pc' = pc => pos' = pos + 1
             /\ ~lastCall'.ok => lastCall'.returned = FallbackOfVisit(lastCall'.idx)]_vars

\* a failed call of each handler, answered by its fallback
C23_Witness ==
    /\ evOut.done /\ evOut.calls = 1 /\ ~evIn.svc.ok
    /\ pc \in {"sub_backfill", "yt_backfill"}
    /\ lastCall.pass = "backfill" /\ ~lastCall.ok /\ Len(lastCall.returned) = 1

=============================================================================
